---- MODULE Spec2Model ----
(***************************************************************************)
(* CallingJournal front end (React): App, ChatInterface, Calendar, AITalk  *)
(* and ProfileMenu as one state machine (Spec), and the back end's journal *)
(* generation, embedding index and retention sweep as a second one         *)
(* (SpecBackend).  The two share no state: the front end never calls the   *)
(* back end.                                                               *)
(*                                                                         *)
(* React semantics used throughout:                                        *)
(*  - a handler runs to completion and the component is re-rendered before *)
(*    the next event, so a handler's closure reads the current state;      *)
(*  - App renders exactly one page (App.jsx 44-56); a page that is not     *)
(*    rendered is unmounted and its useState values are discarded, the     *)
(*    next mount starts again from the useState initial values.  While a   *)
(*    component is not mounted its variables hold those initial values;    *)
(*  - renderMonth reads the clock (new Date()) when Calendar renders:      *)
(*    today is the date read by the mounted Calendar, null otherwise;      *)
(*  - setTimeout callbacks survive the unmount of the component that       *)
(*    scheduled them; a state setter of an unmounted instance is a no-op.  *)
(* Date objects (message timestamps) are not modelled.                     *)
(***************************************************************************)
EXTENDS Integers, Sequences, FiniteSets, TLC

VARIABLES
    isLoggedIn, currentPage,                       \* App
    messages, inputMessage,                        \* ChatInterface
    today, journalEntries, selectedDate,           \* Calendar
    isPanelOpen, showManageMenu, showDeleteWarning,
    starredEntries, hiddenEntries,
    content, isMuted, volume, isCallActive,        \* AITalk
    isOpen,                                        \* ProfileMenu of the page shown
    timers,                                        \* pending setTimeout callbacks
    talkDate,      \* observer: the date handleOpenAITalk was called with
    onBackCalls,   \* observer: calls of onBack by the latest AITalk instance
    \* back end
    convUser,          \* user_id of each conversation
    convStatus,        \* status of each conversation
    stored,            \* conversations whose record is stored
    transcript,        \* conversations whose Messages are stored
    overdue,           \* conversations with now > retention_deadline
    graceExtensions,   \* grace windows the sweep has granted to each conversation
    lease,             \* conversations with journal generation in flight
    done,              \* results available to the generation in flight
    embedded,          \* the vector the Embed step returned
    journals,          \* Journal records, in creation order
    index              \* Embedding Index entries, in insertion order

appVars  == <<isLoggedIn, currentPage>>
chatVars == <<messages, inputMessage>>
calVars  == <<journalEntries, selectedDate, isPanelOpen, showManageMenu,
              showDeleteWarning, starredEntries, hiddenEntries>>
talkVars == <<content, isMuted, volume, isCallActive>>
obsVars  == <<talkDate, onBackCalls>>
frontVars == <<isLoggedIn, currentPage, messages, inputMessage, today,
               journalEntries, selectedDate, isPanelOpen, showManageMenu,
               showDeleteWarning, starredEntries, hiddenEntries, content,
               isMuted, volume, isCallActive, isOpen, timers, talkDate,
               onBackCalls>>
backVars == <<convUser, convStatus, stored, transcript, overdue,
              graceExtensions, lease, done, embedded, journals, index>>
vars == <<frontVars, backVars>>

(***************************************************************************)
(* Bounds                                                                  *)
(***************************************************************************)
MaxSends == 2       \* user messages sent to one ChatInterface instance
MaxTimers == 2      \* setTimeout callbacks pending at once

(***************************************************************************)
(* Text: a sequence of tokens; " " is a whitespace token.                  *)
(***************************************************************************)
\* texts typed into a textarea
Texts == {<<>>, <<" ">>, <<"hi">>, <<" ", "hi">>}

RECURSIVE TrimStart(_)
TrimStart(t) ==
    IF t = <<>> THEN <<>>
    ELSE IF Head(t) = " " THEN TrimStart(Tail(t)) ELSE t

RECURSIVE TrimEnd(_)
TrimEnd(t) ==
    IF t = <<>> THEN <<>>
    ELSE IF t[Len(t)] = " " THEN TrimEnd(SubSeq(t, 1, Len(t) - 1)) ELSE t

trim(t) == TrimEnd(TrimStart(t))

suggestions ==
    <<"Start a new journal", "How was my day?", "Reflect on my goals",
      "Practice gratitude">>

(***************************************************************************)
(* Initial useState values                                                 *)
(***************************************************************************)
null == "null"

messagesInit ==
    << [id |-> 1, role |-> "assistant", content |-> <<"Hello!">>,
        showSuggestions |-> TRUE] >>

journalEntriesInit ==
    {"2025-01-15", "2025-01-20", "2025-02-05", "2025-02-14", "2025-02-28",
     "2025-03-10", "2025-03-22", "2025-04-03", "2025-04-18", "2025-05-01",
     "2025-05-12", "2025-06-08", "2025-06-25", "2025-07-04", "2025-07-19",
     "2025-08-11", "2025-08-30", "2025-09-15", "2025-10-07", "2025-10-31",
     "2025-11-03", "2025-11-15", "2025-12-10", "2025-12-25"}

currentYear == 2025

\* values of new Date() when the calendar is rendered, <<year, monthIndex, day>>
Todays == {<<2024, 11, 31>>, <<2025, 0, 15>>, <<2025, 10, 3>>, <<2026, 10, 1>>}

(***************************************************************************)
(* Timers.  delay is the setTimeout delay; a timer may fire once no timer  *)
(* scheduled before it with the same or a shorter delay is still pending.  *)
(* live, of a reply timer: the ChatInterface instance that scheduled it is  *)
(* still mounted (len, the messages.length its closure holds, is dropped   *)
(* with the instance); of a back timer: no AITalk instance was mounted     *)
(* after the one that scheduled it.                                        *)
(***************************************************************************)
ReplyDelay == 1000
EndCallDelay == 500

ReplyTimer(len) == [kind |-> "reply", delay |-> ReplyDelay, len |-> len, live |-> TRUE]
BackTimer == [kind |-> "back", delay |-> EndCallDelay, len |-> 0, live |-> TRUE]

Remove(s, i) == SubSeq(s, 1, i - 1) \o SubSeq(s, i + 1, Len(s))

CanFire(i) == \A j \in 1..(i - 1) : timers[j].delay > timers[i].delay

Pending(kind) == {i \in 1..Len(timers) : timers[i].kind = kind}

\* The timers of kind k stop being live.
Orphan(ts, k) ==
    [i \in 1..Len(ts) |-> IF ts[i].kind = k
                          THEN [ts[i] EXCEPT !.live = FALSE, !.len = 0]
                          ELSE ts[i]]

ChatMounted == isLoggedIn /\ currentPage = "chat"
CalendarMounted == isLoggedIn /\ currentPage = "calendar"
AITalkMounted == isLoggedIn /\ currentPage = "aitalk"

(***************************************************************************)
(* Mounting.  App renders Landing when logged out, otherwise the page      *)
(* named by currentPage; every other component is unmounted.               *)
(***************************************************************************)
\* Variant: the state of an unmounted component is kept.
UnmountedKept(init, cur) == cur

\* The useState value a component holds after it was unmounted with value cur:
\* the state is discarded and the next mount starts from init.
Unmounted(init, cur) == init

ResetChat ==
    /\ messages' = Unmounted(messagesInit, messages)
    /\ inputMessage' = Unmounted(<<>>, inputMessage)

ResetCalendarExceptEntries ==
    /\ selectedDate' = Unmounted(null, selectedDate)
    /\ isPanelOpen' = Unmounted(FALSE, isPanelOpen)
    /\ showManageMenu' = Unmounted(FALSE, showManageMenu)
    /\ showDeleteWarning' = Unmounted(FALSE, showDeleteWarning)
    /\ starredEntries' = Unmounted({}, starredEntries)
    /\ hiddenEntries' = Unmounted({}, hiddenEntries)

ResetCalendar ==
    /\ journalEntries' = Unmounted(journalEntriesInit, journalEntries)
    /\ ResetCalendarExceptEntries

ResetAITalk ==
    /\ content' = Unmounted(<<>>, content)
    /\ isMuted' = Unmounted(FALSE, isMuted)
    /\ volume' = Unmounted(50, volume)
    /\ isCallActive' = Unmounted(TRUE, isCallActive)

\* Timers after the rendered page changes to `page`: the ChatInterface
\* instance left is unmounted, a new AITalk instance replaces the last one.
TimersAfterShow(ts, page) ==
    LET left == IF ChatMounted THEN Orphan(ts, "reply") ELSE ts
    IN  IF page = "aitalk" THEN Orphan(left, "back") ELSE left

\* What App renders changes to `page` (with login state `logged`), by a
\* handler that leaves the timers ts pending.  The page left is unmounted;
\* the page entered mounts with fresh state.  Rendering the page already
\* shown keeps its state.
Show(logged, page, ts) ==
    /\ isLoggedIn' = logged
    /\ currentPage' = page
    /\ IF logged = isLoggedIn /\ (~logged \/ page = currentPage)
       THEN /\ UNCHANGED <<chatVars, today, calVars, talkVars, isOpen, talkDate>>
            /\ timers' = ts
       ELSE /\ ResetChat /\ ResetCalendar /\ ResetAITalk
            /\ isOpen' = Unmounted(FALSE, isOpen)
            /\ timers' = TimersAfterShow(ts, IF logged THEN page ELSE "landing")
            /\ talkDate' = null
            /\ IF logged /\ page = "calendar"
               THEN today' \in Todays
               ELSE today' = null

(***************************************************************************)
(* App                                                                     *)
(***************************************************************************)
\* Landing: every login button calls onLogin
handleLogin ==
    /\ ~isLoggedIn
    /\ Show(TRUE, "chat", timers)
    /\ UNCHANGED onBackCalls
    /\ UNCHANGED backVars

\* ChatInterface "Calendar View" button
handleNavigateToCalendar ==
    /\ ChatMounted
    /\ Show(TRUE, "calendar", timers)
    /\ UNCHANGED onBackCalls
    /\ UNCHANGED backVars

\* Calendar "Back to Chat" button
handleBackToChat ==
    /\ CalendarMounted
    /\ Show(TRUE, "chat", timers)
    /\ UNCHANGED onBackCalls
    /\ UNCHANGED backVars

(***************************************************************************)
(* ChatInterface                                                           *)
(***************************************************************************)
\* textarea onChange
setInputMessage(t) ==
    /\ ChatMounted
    /\ inputMessage' = t
    /\ UNCHANGED <<appVars, messages, today, calVars, talkVars, isOpen, timers,
                   obsVars>>
    /\ UNCHANGED backVars

LastShowsSuggestions ==
    /\ messages[Len(messages)].role = "assistant"
    /\ messages[Len(messages)].showSuggestions

\* suggestion buttons, rendered under the last message only
handleSuggestionClick(idx) ==
    /\ ChatMounted
    /\ LastShowsSuggestions
    /\ IF suggestions[idx] = "Start a new journal"
       THEN \* onStartNewJournal = App.handleStartNewJournal
            /\ Show(TRUE, "aitalk", timers)
            /\ onBackCalls' = 0
       ELSE /\ inputMessage' = <<suggestions[idx]>>
            /\ UNCHANGED <<appVars, messages, today, calVars, talkVars, isOpen,
                           timers, obsVars>>
    /\ UNCHANGED backVars

\* [...messages, newMessage]
SendAppend(msgs, m) == Append(msgs, m)

\* Variant: [...messages, newMessage, aiResponse] from the closure of the send
\* (m.id - 1 = messages.length + 1 entries precede the reply).
ReplyAppendStale(prev, m) == Append(SubSeq(prev, 1, m.id - 1), m)

\* prev => [...prev, aiResponse]
ReplyAppend(prev, m) == Append(prev, m)

\* handleSendMessage with messageToSend already chosen (a text)
SendText(messageToSend) ==
    /\ trim(messageToSend) # <<>>
    /\ Cardinality({i \in 1..Len(messages) : messages[i].role = "user"}) < MaxSends
    /\ Len(timers) < MaxTimers
    /\ LET newMessage == [id |-> Len(messages) + 1, role |-> "user",
                          content |-> messageToSend, showSuggestions |-> FALSE]
       IN  messages' = SendAppend(messages, newMessage)
    /\ inputMessage' = <<>>
    /\ timers' = Append(timers, ReplyTimer(Len(messages)))
    /\ UNCHANGED <<appVars, today, calVars, talkVars, isOpen, obsVars>>

\* textarea onKeyPress
handleKeyPress(key, shiftKey) ==
    /\ ChatMounted
    /\ IF key = "Enter" /\ ~shiftKey
       THEN \/ SendText(inputMessage)         \* handleSendMessage()
            \/ /\ trim(inputMessage) = <<>>   \* early return
               /\ UNCHANGED vars
       ELSE UNCHANGED vars
    /\ UNCHANGED backVars

\* send button: onClick={handleSendMessage} passes the click event as
\* customMessage, so messageToSend is the event object and
\* messageToSend.trim is not a function: the handler throws a TypeError
\* before any state is set.
handleSendButtonClick ==
    /\ ChatMounted
    /\ trim(inputMessage) # <<>>              \* disabled otherwise
    /\ UNCHANGED vars
    /\ UNCHANGED backVars

\* the values of the expression Math.random() > 0.5
RandomShow == BOOLEAN

\* the aiResponse object built by the timer callback of a send that saw
\* len messages, when Math.random() > 0.5 evaluates to show
aiResponse(len, show) ==
    [id |-> len + 2, role |-> "assistant",
     content |-> <<"That's a wonderful reflection!">>,
     showSuggestions |-> show]

\* the reply timer scheduled by handleSendMessage fires
ReplyTimerFires(i, show) ==
    /\ i \in Pending("reply")
    /\ CanFire(i)
    /\ timers' = Remove(timers, i)
    /\ IF timers[i].live
       THEN messages' = ReplyAppend(messages, aiResponse(timers[i].len, show))
       ELSE UNCHANGED messages        \* setMessages of an unmounted instance
    /\ UNCHANGED <<appVars, inputMessage, today, calVars, talkVars, isOpen,
                   obsVars>>
    /\ UNCHANGED backVars

(***************************************************************************)
(* Calendar                                                                *)
(***************************************************************************)
Pad2(n) == IF n < 10 THEN "0" \o ToString(n) ELSE ToString(n)

\* `${year}-${String(month + 1).padStart(2, '0')}-${String(day).padStart(2, '0')}`
formatDate(year, month, day) ==
    ToString(year) \o "-" \o Pad2(month + 1) \o "-" \o Pad2(day)

\* a < b for dates <<year, monthIndex, day>>
DateLess(a, b) ==
    \/ a[1] < b[1]
    \/ a[1] = b[1] /\ a[2] < b[2]
    \/ a[1] = b[1] /\ a[2] = b[2] /\ a[3] < b[3]

\* Variant: the day cells are never disabled.
isFutureOff(month, day) == FALSE

\* renderMonth: const isFuture = currentDate > today
isFuture(month, day) == DateLess(today, <<currentYear, month, day>>)

\* new Date(year, month + 1, 0).getDate()
getDaysInMonth(year, month) ==
    IF month = 1
    THEN IF year % 4 = 0 /\ (year % 100 # 0 \/ year % 400 = 0) THEN 29 ELSE 28
    ELSE IF month \in {3, 5, 8, 10} THEN 30 ELSE 31

\* the day cells renderMonth builds for the twelve months, as <<monthIndex, day>>
DaysOfYear ==
    {md \in (0..11) \X (1..31) : md[2] <= getDaysInMonth(currentYear, md[1])}

\* the date string of each day cell
DateString == [md \in DaysOfYear |-> formatDate(currentYear, md[1], md[2])]

\* midnight passes while the calendar is shown: the next render reads a
\* later new Date()
dayPasses ==
    /\ CalendarMounted
    /\ today' \in {t \in Todays : DateLess(today, t)}
    /\ UNCHANGED <<appVars, chatVars, calVars, talkVars, isOpen, timers, obsVars>>
    /\ UNCHANGED backVars

\* day cells that are clicked, as <<monthIndex, day>>
ClickDays == {<<0, 15>>, <<0, 16>>, <<11, 25>>}

hasEntry == selectedDate # null /\ selectedDate \in journalEntries

\* day cell onClick: !isFuture && handleDateClick(currentYear, monthIndex, day)
handleDateClick(month, day) ==
    /\ CalendarMounted
    /\ ~isFuture(month, day)
    /\ selectedDate' = formatDate(currentYear, month, day)
    /\ isPanelOpen' = TRUE
    /\ showManageMenu' = FALSE
    /\ showDeleteWarning' = FALSE
    /\ UNCHANGED <<appVars, chatVars, today, journalEntries, starredEntries,
                   hiddenEntries, talkVars, isOpen, timers, obsVars>>
    /\ UNCHANGED backVars

\* panel close button
closePanel ==
    /\ CalendarMounted
    /\ isPanelOpen
    /\ isPanelOpen' = FALSE
    /\ UNCHANGED <<appVars, chatVars, today, journalEntries, selectedDate,
                   showManageMenu, showDeleteWarning, starredEntries,
                   hiddenEntries, talkVars, isOpen, timers, obsVars>>
    /\ UNCHANGED backVars

\* "Manage Entry" button
toggleManageMenu ==
    /\ CalendarMounted
    /\ hasEntry
    /\ showManageMenu' = ~showManageMenu
    /\ UNCHANGED <<appVars, chatVars, today, journalEntries, selectedDate,
                   isPanelOpen, showDeleteWarning, starredEntries,
                   hiddenEntries, talkVars, isOpen, timers, obsVars>>
    /\ UNCHANGED backVars

\* Variant: new Set() instead of new Set(starredEntries) / new Set(hiddenEntries).
ToggleFresh(s, d) == IF d \in s THEN {} ELSE {d}

\* new Set(s) with d deleted if present, added otherwise
Toggle(s, d) == IF d \in s THEN s \ {d} ELSE s \cup {d}

handleToggleStar ==
    /\ CalendarMounted
    /\ hasEntry /\ showManageMenu
    /\ starredEntries' = Toggle(starredEntries, selectedDate)
    /\ showManageMenu' = FALSE
    /\ UNCHANGED <<appVars, chatVars, today, journalEntries, selectedDate,
                   isPanelOpen, showDeleteWarning, hiddenEntries, talkVars,
                   isOpen, timers, obsVars>>
    /\ UNCHANGED backVars

handleToggleHidden ==
    /\ CalendarMounted
    /\ hasEntry /\ showManageMenu
    /\ hiddenEntries' = Toggle(hiddenEntries, selectedDate)
    /\ showManageMenu' = FALSE
    /\ UNCHANGED <<appVars, chatVars, today, journalEntries, selectedDate,
                   isPanelOpen, showDeleteWarning, starredEntries, talkVars,
                   isOpen, timers, obsVars>>
    /\ UNCHANGED backVars

\* Variant: "Remove Entry" deletes the entry at once, without the warning.
removeEntryClickDirect ==
    /\ CalendarMounted
    /\ hasEntry /\ showManageMenu
    /\ journalEntries' = journalEntries \ {selectedDate}
    /\ starredEntries' = starredEntries \ {selectedDate}
    /\ hiddenEntries' = hiddenEntries \ {selectedDate}
    /\ showManageMenu' = FALSE
    /\ isPanelOpen' = FALSE
    /\ UNCHANGED <<appVars, chatVars, today, selectedDate, showDeleteWarning,
                   talkVars, isOpen, timers, obsVars>>
    /\ UNCHANGED backVars

\* "Remove Entry" item of the manage menu
removeEntryClick ==
    /\ CalendarMounted
    /\ hasEntry /\ showManageMenu
    /\ showManageMenu' = FALSE
    /\ showDeleteWarning' = TRUE
    /\ UNCHANGED <<appVars, chatVars, today, journalEntries, selectedDate,
                   isPanelOpen, starredEntries, hiddenEntries, talkVars,
                   isOpen, timers, obsVars>>
    /\ UNCHANGED backVars

\* "Cancel" in the delete warning
cancelDelete ==
    /\ CalendarMounted
    /\ hasEntry /\ showDeleteWarning
    /\ showDeleteWarning' = FALSE
    /\ UNCHANGED <<appVars, chatVars, today, journalEntries, selectedDate,
                   isPanelOpen, showManageMenu, starredEntries, hiddenEntries,
                   talkVars, isOpen, timers, obsVars>>
    /\ UNCHANGED backVars

\* Variant: new Set() instead of new Set(entries).
DeleteFromEmpty(entries, d) == {}

\* new Set(entries) with d deleted
DeleteFrom(entries, d) == entries \ {d}

\* "Remove" in the delete warning
handleDeleteEntry ==
    /\ CalendarMounted
    /\ hasEntry /\ showDeleteWarning
    /\ journalEntries' = DeleteFrom(journalEntries, selectedDate)
    /\ starredEntries' = DeleteFrom(starredEntries, selectedDate)
    /\ hiddenEntries' = DeleteFrom(hiddenEntries, selectedDate)
    /\ showDeleteWarning' = FALSE
    /\ showManageMenu' = FALSE
    /\ isPanelOpen' = FALSE
    /\ UNCHANGED <<appVars, chatVars, today, selectedDate, talkVars, isOpen,
                   timers, obsVars>>
    /\ UNCHANGED backVars

\* App.handleOpenAITalk(date): the date is dropped, AITalk gets no selectedDate
handleOpenAITalk(date) ==
    /\ isLoggedIn' = TRUE
    /\ currentPage' = "aitalk"
    /\ ResetChat /\ ResetCalendarExceptEntries /\ ResetAITalk
    /\ isOpen' = Unmounted(FALSE, isOpen)
    /\ timers' = TimersAfterShow(timers, "aitalk")
    /\ talkDate' = date
    /\ onBackCalls' = 0
    /\ today' = null

\* "Talk to AI" button of an existing entry
talkToAI ==
    /\ CalendarMounted
    /\ hasEntry
    /\ journalEntries' = Unmounted(journalEntriesInit, journalEntries)
    /\ handleOpenAITalk(selectedDate)
    /\ UNCHANGED backVars

\* "Create Entry" button: setJournalEntries(newEntries) is queued on the
\* Calendar instance that the onOpenAITalk call of the same handler unmounts.
createEntry ==
    /\ CalendarMounted
    /\ selectedDate # null /\ ~hasEntry
    /\ LET newEntries == journalEntries \cup {selectedDate}
       IN  journalEntries' = Unmounted(journalEntriesInit, newEntries)
    /\ handleOpenAITalk(selectedDate)
    /\ UNCHANGED backVars

(***************************************************************************)
(* AITalk                                                                  *)
(***************************************************************************)
Volumes == {0, 50, 100}

\* textarea onChange
setContent(t) ==
    /\ AITalkMounted
    /\ content' = t
    /\ UNCHANGED <<appVars, chatVars, today, calVars, isMuted, volume,
                   isCallActive, isOpen, timers, obsVars>>
    /\ UNCHANGED backVars

\* mute button
toggleMute ==
    /\ AITalkMounted
    /\ isMuted' = ~isMuted
    /\ UNCHANGED <<appVars, chatVars, today, calVars, content, volume,
                   isCallActive, isOpen, timers, obsVars>>
    /\ UNCHANGED backVars

\* volume slider onChange
setVolume(v) ==
    /\ AITalkMounted
    /\ volume' = v
    /\ UNCHANGED <<appVars, chatVars, today, calVars, content, isMuted,
                   isCallActive, isOpen, timers, obsVars>>
    /\ UNCHANGED backVars

\* Variant: setIsCallActive(!isCallActive), as the mute button does.
EndCallToggle(active) == ~active

\* setIsCallActive(false)
EndCallActive(active) == FALSE

\* "End Call" button
handleEndCall ==
    /\ AITalkMounted
    /\ Len(timers) < MaxTimers
    /\ isCallActive' = EndCallActive(isCallActive)
    /\ timers' = Append(timers, BackTimer)
    /\ UNCHANGED <<appVars, chatVars, today, calVars, content, isMuted, volume,
                   isOpen, obsVars>>
    /\ UNCHANGED backVars

\* "Back to Calendar" button: onClick={onBack}, onBack = App.handleBackToChat
backButtonClick ==
    /\ AITalkMounted
    /\ Show(TRUE, "chat", timers)
    /\ onBackCalls' = onBackCalls + 1
    /\ UNCHANGED backVars

\* the timer scheduled by handleEndCall fires: onBack()
BackTimerFires(i) ==
    /\ i \in Pending("back")
    /\ CanFire(i)
    /\ Show(isLoggedIn, "chat", Remove(timers, i))
    /\ onBackCalls' = IF timers[i].live THEN onBackCalls + 1 ELSE onBackCalls
    /\ UNCHANGED backVars

(***************************************************************************)
(* ProfileMenu (one instance on each of the three pages)                   *)
(***************************************************************************)
\* profile button
profileButtonClick ==
    /\ isLoggedIn
    /\ isOpen' = ~isOpen
    /\ UNCHANGED <<appVars, chatVars, today, calVars, talkVars, timers, obsVars>>
    /\ UNCHANGED backVars

\* backdrop behind the open menu
backdropClick ==
    /\ isLoggedIn /\ isOpen
    /\ isOpen' = FALSE
    /\ UNCHANGED <<appVars, chatVars, today, calVars, talkVars, timers, obsVars>>
    /\ UNCHANGED backVars

\* the placeholder items of the dropdown
MenuItems == {"Profile", "Settings", "Help & Support"}

\* Variant: the placeholder items do not call setIsOpen(false).
menuItemClickStays(item) ==
    /\ isLoggedIn /\ isOpen
    /\ UNCHANGED frontVars
    /\ UNCHANGED backVars

\* Profile, Settings, Help & Support
menuItemClick(item) ==
    /\ isLoggedIn /\ isOpen
    /\ isOpen' = FALSE
    /\ UNCHANGED <<appVars, chatVars, today, calVars, talkVars, timers, obsVars>>
    /\ UNCHANGED backVars

\* Variant: onLogout only shows the chat page (setCurrentPage('chat')).
logOutClickToChat ==
    /\ isLoggedIn /\ isOpen
    /\ Show(TRUE, "chat", timers)
    /\ UNCHANGED onBackCalls
    /\ UNCHANGED backVars

\* Log Out: setIsOpen(false); onLogout = App.handleLogout
logOutClick ==
    /\ isLoggedIn /\ isOpen
    /\ Show(FALSE, "chat", timers)
    /\ UNCHANGED onBackCalls
    /\ UNCHANGED backVars

(***************************************************************************)
(* Back end: Conversation Session, Journal Generator, Retention Manager    *)
(* and Embedding Index.  The services and DAOs the README lists            *)
(* (conversation_service.py, journal_service.py, embedding_service.py,     *)
(* conversation_dao.py) are not part of the sources at hand; this section  *)
(* follows their specification.                                            *)
(***************************************************************************)
Users == {"U1", "U2"}
Convs == {"C1", "C2"}

\* values of embed(text) and of query vectors, with non-negative components
Vectors == {<<1, 0>>, <<1, 1>>}
NoVector == <<>>

MaxExtensions == 1  \* grace windows the sweep grants to one conversation
MaxK == 2           \* largest k passed to search

\* the upstream steps of the Journal Generator
Steps == {"summarize", "topics", "emotions", "embed"}

HasJournal(c) == \E i \in 1..Len(journals) : journals[i].conversation_id = c

\* open(user_id)
open(c, u) ==
    /\ convStatus[c] = "None"
    /\ convStatus' = [convStatus EXCEPT ![c] = "Created"]
    /\ convUser' = [convUser EXCEPT ![c] = u]
    /\ stored' = stored \cup {c}
    /\ UNCHANGED <<transcript, overdue, graceExtensions, lease, done, embedded,
                   journals, index>>
    /\ UNCHANGED frontVars

\* submit_message(text): a user Message and the assistant Message (the
\* provider's or the fallback) are appended
submit_message(c) ==
    /\ convStatus[c] \in {"Created", "Active"}
    /\ convStatus' = [convStatus EXCEPT ![c] = "Active"]
    /\ transcript' = transcript \cup {c}
    /\ UNCHANGED <<convUser, stored, overdue, graceExtensions, lease, done,
                   embedded, journals, index>>
    /\ UNCHANGED frontVars

\* end(): the terminal compare-and-set to Completed; generation starts and
\* takes its lease
end(c) ==
    /\ convStatus[c] = "Active"
    /\ convStatus' = [convStatus EXCEPT ![c] = "Completed"]
    /\ lease' = lease \cup {c}
    /\ UNCHANGED <<convUser, stored, transcript, overdue, graceExtensions,
                   done, embedded, journals, index>>
    /\ UNCHANGED frontVars

\* cancel()
cancel(c) ==
    /\ convStatus[c] \in {"Created", "Active"}
    /\ convStatus' = [convStatus EXCEPT ![c] = "Abandoned"]
    /\ UNCHANGED <<convUser, stored, transcript, overdue, graceExtensions,
                   lease, done, embedded, journals, index>>
    /\ UNCHANGED frontVars

\* one of the steps 1-4 of the Journal Generator returns its result
GeneratorStep(c, step, v) ==
    /\ c \in lease
    /\ step \notin done[c]
    /\ done' = [done EXCEPT ![c] = @ \cup {step}]
    /\ embedded' = IF step = "embed" THEN [embedded EXCEPT ![c] = v] ELSE embedded
    /\ UNCHANGED <<convUser, convStatus, stored, transcript, overdue,
                   graceExtensions, lease, journals, index>>
    /\ UNCHANGED frontVars

\* a step, or the commit, fails for good (retries exhausted, commit rolled
\* back): the conversation stays Completed-pending and is queued
GeneratorFails(c) ==
    /\ c \in lease
    /\ lease' = lease \ {c}
    /\ done' = [done EXCEPT ![c] = {}]
    /\ embedded' = [embedded EXCEPT ![c] = NoVector]
    /\ UNCHANGED <<convUser, convStatus, stored, transcript, overdue,
                   graceExtensions, journals, index>>
    /\ UNCHANGED frontVars

\* the queued conversation is attempted again
Reattempt(c) ==
    /\ convStatus[c] = "Completed" /\ ~HasJournal(c)
    /\ c \notin lease
    /\ lease' = lease \cup {c}
    /\ UNCHANGED <<convUser, convStatus, stored, transcript, overdue,
                   graceExtensions, done, embedded, journals, index>>
    /\ UNCHANGED frontVars

\* Variant: the index entry is left to a later best-effort step.
insertDeferred(idx, user_id, journal_id, vector) == idx

\* Embedding Index insert(user_id, journal_id, vector)
insert(idx, user_id, journal_id, vector) ==
    Append(idx, [user_id |-> user_id, journal_id |-> journal_id,
                 vector |-> vector])

\* step 5, Commit: the Journal record and its index entry in one step
Commit(c) ==
    /\ c \in lease
    /\ done[c] = Steps
    /\ LET id == Len(journals) + 1
       IN  /\ journals' = Append(journals,
                              [id |-> id, conversation_id |-> c,
                               user_id |-> convUser[c],
                               embedding_vector |-> embedded[c]])
           /\ index' = insert(index, convUser[c], id, embedded[c])
    /\ lease' = lease \ {c}
    /\ done' = [done EXCEPT ![c] = {}]
    /\ embedded' = [embedded EXCEPT ![c] = NoVector]
    /\ UNCHANGED <<convUser, convStatus, stored, transcript, overdue,
                   graceExtensions>>
    /\ UNCHANGED frontVars

\* the clock passes the retention_deadline of a stored conversation
DeadlinePasses(c) ==
    /\ c \in stored
    /\ c \notin overdue
    /\ overdue' = overdue \cup {c}
    /\ UNCHANGED <<convUser, convStatus, stored, transcript, graceExtensions,
                   lease, done, embedded, journals, index>>
    /\ UNCHANGED frontVars

\* Variant: every overdue conversation without a Journal is deleted.
DeletableUnjournaled(c) == ~HasJournal(c)

\* the sweep may delete conversation c and its Messages
Deletable(c) ==
    /\ ~HasJournal(c)
    /\ c \notin lease
    /\ convStatus[c] \in {"Created", "Active", "Abandoned", "Expired"}

\* the Retention Manager's sweep handles conversation c
sweep(c) ==
    /\ c \in stored
    /\ c \in overdue \/ convStatus[c] = "Abandoned" \/ HasJournal(c)
    /\ IF HasJournal(c)
       THEN /\ transcript' = transcript \ {c}         \* the Journal is kept
            /\ UNCHANGED <<convStatus, stored, graceExtensions>>
       ELSE IF Deletable(c)
       THEN /\ convStatus' = [convStatus EXCEPT ![c] =
                                 IF @ \in {"Created", "Active"} THEN "Expired" ELSE @]
            /\ stored' = stored \ {c}
            /\ transcript' = transcript \ {c}
            /\ UNCHANGED graceExtensions
       ELSE /\ graceExtensions' =                     \* Completed-pending
                 [graceExtensions EXCEPT ![c] =
                     IF @ < MaxExtensions THEN @ + 1 ELSE @]
            /\ UNCHANGED <<convStatus, stored, transcript>>
    /\ UNCHANGED <<convUser, overdue, lease, done, embedded, journals, index>>
    /\ UNCHANGED frontVars

Dot(a, b) == a[1] * b[1] + a[2] * b[2]

\* cosine(a, q) > cosine(b, q), for vectors with non-negative components
MoreSimilar(a, b, q) ==
    Dot(a, q) * Dot(a, q) * Dot(b, b) > Dot(b, q) * Dot(b, q) * Dot(a, a)

\* entry i of idx is ranked before entry j for the query q: by cosine
\* similarity, ties by recency
RankedBefore(idx, i, j, q) ==
    \/ MoreSimilar(idx[i].vector, idx[j].vector, q)
    \/ /\ ~MoreSimilar(idx[j].vector, idx[i].vector, q)
       /\ i > j

\* Variant: one index for all users.
PartitionShared(idx, user_id) == DOMAIN idx

\* the entries of the partition of user_id
Partition(idx, user_id) == {i \in DOMAIN idx : idx[i].user_id = user_id}

\* search(user_id, query_vector, k): the journal ids of the k best entries
search(idx, user_id, q, k) ==
    LET part == Partition(idx, user_id)
        rank(i) == 1 + Cardinality({j \in part : RankedBefore(idx, j, i, q)})
        n == IF k < Cardinality(part) THEN k ELSE Cardinality(part)
    IN  [r \in 1..n |-> idx[CHOOSE i \in part : rank(i) = r].journal_id]

InitBackend ==
    /\ convUser = [c \in Convs |-> "U1"]
    /\ convStatus = [c \in Convs |-> "None"]
    /\ stored = {}
    /\ transcript = {}
    /\ overdue = {}
    /\ graceExtensions = [c \in Convs |-> 0]
    /\ lease = {}
    /\ done = [c \in Convs |-> {}]
    /\ embedded = [c \in Convs |-> NoVector]
    /\ journals = <<>>
    /\ index = <<>>

NextBackend ==
    \/ \E c \in Convs, u \in Users : open(c, u)
    \/ \E c \in Convs : submit_message(c)
    \/ \E c \in Convs : end(c)
    \/ \E c \in Convs : cancel(c)
    \/ \E c \in Convs, step \in Steps, v \in Vectors : GeneratorStep(c, step, v)
    \/ \E c \in Convs : GeneratorFails(c)
    \/ \E c \in Convs : Reattempt(c)
    \/ \E c \in Convs : Commit(c)
    \/ \E c \in Convs : DeadlinePasses(c)
    \/ \E c \in Convs : sweep(c)

(***************************************************************************)
(* Specification                                                           *)
(***************************************************************************)
Init ==
    /\ isLoggedIn = FALSE
    /\ currentPage = "chat"
    /\ messages = messagesInit
    /\ inputMessage = <<>>
    /\ today = null
    /\ journalEntries = journalEntriesInit
    /\ selectedDate = null
    /\ isPanelOpen = FALSE
    /\ showManageMenu = FALSE
    /\ showDeleteWarning = FALSE
    /\ starredEntries = {}
    /\ hiddenEntries = {}
    /\ content = <<>>
    /\ isMuted = FALSE
    /\ volume = 50
    /\ isCallActive = TRUE
    /\ isOpen = FALSE
    /\ timers = <<>>
    /\ talkDate = null
    /\ onBackCalls = 0
    /\ InitBackend

Next ==
    \/ handleLogin
    \/ handleNavigateToCalendar
    \/ handleBackToChat
    \/ \E t \in Texts : setInputMessage(t)
    \/ \E idx \in 1..Len(suggestions) : handleSuggestionClick(idx)
    \/ \E key \in {"Enter", "a"}, shiftKey \in BOOLEAN : handleKeyPress(key, shiftKey)
    \/ handleSendButtonClick
    \/ \E i \in 1..Len(timers), show \in RandomShow : ReplyTimerFires(i, show)
    \/ \E d \in ClickDays : handleDateClick(d[1], d[2])
    \/ dayPasses
    \/ closePanel
    \/ toggleManageMenu
    \/ handleToggleStar
    \/ handleToggleHidden
    \/ removeEntryClick
    \/ cancelDelete
    \/ handleDeleteEntry
    \/ talkToAI
    \/ createEntry
    \/ \E t \in Texts : setContent(t)
    \/ toggleMute
    \/ \E v \in Volumes : setVolume(v)
    \/ handleEndCall
    \/ backButtonClick
    \/ \E i \in 1..Len(timers) : BackTimerFires(i)
    \/ profileButtonClick
    \/ backdropClick
    \/ \E item \in MenuItems : menuItemClick(item)
    \/ logOutClick

Spec == Init /\ [][Next]_vars

(***************************************************************************)
(* One Calendar instance on its own, from its first render (after Login    *)
(* and "View Calendar") to the last step that keeps it mounted.            *)
(***************************************************************************)
InitCalendar ==
    /\ isLoggedIn = TRUE
    /\ currentPage = "calendar"
    /\ messages = messagesInit
    /\ inputMessage = <<>>
    /\ today \in Todays
    /\ journalEntries = journalEntriesInit
    /\ selectedDate = null
    /\ isPanelOpen = FALSE
    /\ showManageMenu = FALSE
    /\ showDeleteWarning = FALSE
    /\ starredEntries = {}
    /\ hiddenEntries = {}
    /\ content = <<>>
    /\ isMuted = FALSE
    /\ volume = 50
    /\ isCallActive = TRUE
    /\ isOpen = FALSE
    /\ timers = <<>>
    /\ talkDate = null
    /\ onBackCalls = 0
    /\ InitBackend

NextCalendar ==
    \/ \E d \in ClickDays : handleDateClick(d[1], d[2])
    \/ dayPasses
    \/ closePanel
    \/ toggleManageMenu
    \/ handleToggleStar
    \/ handleToggleHidden
    \/ removeEntryClick
    \/ cancelDelete
    \/ handleDeleteEntry

SpecCalendar == InitCalendar /\ [][NextCalendar]_vars

SpecBackend == Init /\ [][NextBackend]_vars

(***************************************************************************)
(* Properties                                                              *)
(***************************************************************************)
IsPrefix(a, b) == Len(a) <= Len(b) /\ SubSeq(b, 1, Len(a)) = a

LiveReplies == {i \in Pending("reply") : timers[i].live}
LiveBacks == {i \in Pending("back") : timers[i].live}
ReplyTimersPending == Cardinality(Pending("reply"))

\* handleEndCall and the onBack it schedules report nothing to the user:
\* AITalk has no error state, alert or message.
failureReported == FALSE

\* C1: the ids of the messages list are strictly increasing in list order,
\* whatever the interleaving of sends and delayed replies.
C1_IdsStrictlyIncreasing ==
    \A i \in 1..(Len(messages) - 1) : messages[i].id < messages[i + 1].id

\* C2: at most one turn is in flight: no second user message is submitted
\* while the reply to an earlier one is still to be appended.
C2_AtMostOneTurnInFlight == Cardinality(LiveReplies) <= 1

\* C3: while ChatInterface stays mounted the messages list is append-only:
\* every step leaves the earlier list a prefix of the new one.
C3_AppendOnly ==
    [][(ChatMounted /\ ChatMounted') => IsPrefix(messages, messages')]_vars

\* two sends were in flight together and both replies have arrived
C3_Witness ==
    /\ ChatMounted
    /\ Len(messages) = 5
    /\ messages[2].role = "user" /\ messages[3].role = "user"
    /\ messages[4].role = "assistant" /\ messages[5].role = "assistant"

\* C4: every user message is followed by one appended assistant message:
\* whenever the reply timer of a sent message fires, exactly one assistant
\* message is appended to the messages list.
C4_EveryReplyAppended ==
    [][ReplyTimersPending' < ReplyTimersPending
         => /\ Len(messages') = Len(messages) + 1
            /\ messages'[Len(messages')].role = "assistant"]_vars

\* C5: once End Call has been handled, a journal entry for the session's
\* date exists or a failure has been reported.
C5_EndCallProducesJournal ==
    (AITalkMounted /\ ~isCallActive)
        => (talkDate \in journalEntries \/ failureReported)

C7_EntriesPermanent ==
    [][\A d \in journalEntries \ journalEntries' :
          CalendarMounted /\ showDeleteWarning /\ selectedDate = d]_vars

\* back on the calendar after an AITalk session was opened and left, with a
\* sample entry removed by the user and the others in place
C7_Witness ==
    /\ CalendarMounted
    /\ onBackCalls >= 1
    /\ "2025-01-15" \notin journalEntries
    /\ "2025-01-20" \in journalEntries

\* C8: once End Call has set isCallActive to false, no step of that mounted
\* AITalk session sets it back to true.
C8_EndedStaysEnded ==
    [][(AITalkMounted /\ ~isCallActive /\ AITalkMounted') => ~isCallActive']_vars

\* End Call was used a second time in a session it had already ended
C8_Witness ==
    /\ AITalkMounted /\ ~isCallActive
    /\ Cardinality(LiveBacks) = 2

\* C9: the onBack of one AITalk session is called at most once.
C9_OnBackAtMostOnce == onBackCalls <= 1

\* C10: after End Call the entry content is no longer changed by typing.
C10_NoEditAfterEnd ==
    [][(AITalkMounted /\ ~isCallActive /\ AITalkMounted') => content' = content]_vars

\* the assistant messages the live reply timer i can append, one per value
\* of Math.random() > 0.5
ReplyOutcomes(i) == {aiResponse(timers[i].len, show) : show \in RandomShow}

\* C11: the assistant reply is deterministic: whatever two runs that reached
\* the same state after the same user actions append for a pending reply
\* agrees in content and in showSuggestions.
C11_ReplyDeterministic ==
    \A i \in LiveReplies : \A a, b \in ReplyOutcomes(i) :
        a.content = b.content /\ a.showSuggestions = b.showSuggestions

\* the effect of handleSendMessage() on a typed text: the user message is
\* appended, the input is cleared and one reply timer is scheduled
SentTyped(text) ==
    /\ messages' = Append(messages, [id |-> Len(messages) + 1, role |-> "user",
                                     content |-> text, showSuggestions |-> FALSE])
    /\ inputMessage' = <<>>
    /\ Len(timers') = Len(timers) + 1
    /\ timers'[Len(timers')].kind = "reply"

\* C15: while inputMessage is not blank, a click on the send button has the
\* effect of pressing Enter: it appends the typed text as a user message,
\* clears the input and schedules one assistant reply.
C15_SendButtonSends ==
    (ChatMounted /\ ENABLED SendText(inputMessage))
        => ~ENABLED (handleSendButtonClick /\ ~SentTyped(inputMessage))

\* C16: from the AI Talk page the "Back to Calendar" button leads to the
\* Calendar view: every click ends with currentPage = "calendar".
C16_BackToCalendar ==
    AITalkMounted => ~ENABLED (backButtonClick /\ currentPage' # "calendar")

\* days since a fixed origin, counting every month as 31 days
DayNumber(date) == (date[1] * 12 + date[2]) * 31 + date[3]

\* for each value of today, the date strings of the day cells that are not
\* later than it
OnOrBefore ==
    [t \in Todays |->
        {DateString[md] : md \in {c \in DaysOfYear :
            DayNumber(<<currentYear, c[1], c[2]>>) <= DayNumber(t)}}]

\* str is the date string of a day cell that is not later than date
NotLater(str, date) == str \in OnOrBefore[date]

\* C17: future dates are disabled: whatever today is, the selected date is
\* never later than today, and no step of the calendar adds a date later
\* than today to journalEntries.
C17_NoFutureDate ==
    /\ [](CalendarMounted /\ selectedDate # null => NotLater(selectedDate, today))
    /\ [][CalendarMounted =>
             \A d \in journalEntries' \ journalEntries : NotLater(d, today)]_vars

\* on 2025-01-15 the day itself is selected (2025-01-16 and 2025-12-25 are
\* later than today)
C17_Witness ==
    /\ CalendarMounted
    /\ today = <<2025, 0, 15>>
    /\ selectedDate = "2025-01-15"

\* the day cells of the displayed year with the dateStr hasJournalEntry
\* computes for each
DayCells ==
    {[monthIndex |-> md[1], day |-> md[2], dateStr |-> DateString[md]] :
        md \in DaysOfYear}

\* hasJournalEntry: journalEntries.has(dateStr)
hasJournalEntry(dateStr) == dateStr \in journalEntries

\* Variant: the entry style is chosen before the future style.
cellStyleEntryFirst(future, entry) ==
    IF entry THEN "bg-emerald-500"
    ELSE IF future THEN "bg-slate-800/30"
    ELSE "bg-slate-700"

\* the background class of a day cell: isFuture ? ... : hasEntry ? ... : ...
cellStyle(future, entry) ==
    IF future THEN "bg-slate-800/30"
    ELSE IF entry THEN "bg-emerald-500"
    ELSE "bg-slate-700"

\* the background class renderMonth gives the cell c
renderedStyle(c) ==
    cellStyle(isFuture(c.monthIndex, c.day), hasJournalEntry(c.dateStr))

\* the day of cell c is later than today
LaterThanToday(c) ==
    DayNumber(<<currentYear, c.monthIndex, c.day>>) > DayNumber(today)

C19_RemovedOnlyConfirmed ==
    /\ [](ENABLED handleDeleteEntry =>
              CalendarMounted /\ showDeleteWarning /\ hasEntry)
    /\ [](~ENABLED (cancelDelete /\ ~UNCHANGED <<journalEntries, starredEntries,
                                                 hiddenEntries>>))
    /\ [][(\A d \in journalEntries \ journalEntries' :
               CalendarMounted /\ showDeleteWarning /\ selectedDate = d)
          /\ ((~showDeleteWarning /\ showDeleteWarning') =>
                 (hasEntry /\ showManageMenu /\ selectedDate' = selectedDate))]_vars

\* one entry was removed and the warning is open for another one
C19_Witness ==
    /\ CalendarMounted
    /\ "2025-01-15" \notin journalEntries
    /\ selectedDate = "2025-12-25"
    /\ showDeleteWarning

\* st is s with the membership of d flipped
Flipped(s, st, d) == (st \ s) \cup (s \ st) = {d}

\* C20: star and hide are independent toggles of the selected entry: every
\* handleToggleStar flips the membership of selectedDate in starredEntries
\* (so two applications restore the set) and leaves hiddenEntries and
\* journalEntries unchanged, and every handleToggleHidden does the same with
\* the roles of starredEntries and hiddenEntries exchanged.
C20_IndependentToggles ==
    /\ ~ENABLED (/\ handleToggleStar
                 /\ ~(/\ Flipped(starredEntries, starredEntries', selectedDate)
                      /\ UNCHANGED <<hiddenEntries, journalEntries, selectedDate>>))
    /\ ~ENABLED (/\ handleToggleHidden
                 /\ ~(/\ Flipped(hiddenEntries, hiddenEntries', selectedDate)
                      /\ UNCHANGED <<starredEntries, journalEntries, selectedDate>>))

\* both toggles are offered for an entry that is starred and hidden, next to
\* another starred entry
C20_Witness ==
    /\ CalendarMounted
    /\ showManageMenu
    /\ selectedDate = "2025-01-15"
    /\ starredEntries = {"2025-01-15", "2025-12-25"}
    /\ hiddenEntries = {"2025-01-15"}

Range(f) == {f[i] : i \in DOMAIN f}

\* the index entry that belongs to Journal j
EntryOf(j) ==
    [user_id |-> j.user_id, journal_id |-> j.id, vector |-> j.embedding_vector]

\* C12: a Journal exists if and only if its vector is present in the
\* Embedding Index: in every reachable state, whatever failed or was
\* interleaved, the index entries are exactly the entries of the Journals.
C12_JournalIffIndexed ==
    /\ {EntryOf(j) : j \in Range(journals)} = Range(index)
    /\ Len(index) = Len(journals)

\* two Journals were committed, one after a failed attempt was retried
C12_Witness ==
    /\ Len(journals) = 2
    /\ journals[1].user_id # journals[2].user_id
    /\ \E c \in Convs : graceExtensions[c] = 1 /\ HasJournal(c)

\* C13: for every user u, query vector and k, search(u, query, k) returns
\* only journal ids that were inserted under user_id = u.
C13_SearchIsolation ==
    \A u \in Users, q \in Vectors, k \in 1..MaxK :
        \A id \in Range(search(index, u, q, k)) :
            \E e \in Range(index) : e.journal_id = id /\ e.user_id = u

\* both users have an entry and a search of U1 for two results returns one
C13_Witness ==
    /\ \E e \in Range(index) : e.user_id = "U1"
    /\ \E e \in Range(index) : e.user_id = "U2"
    /\ Len(search(index, "U1", <<1, 0>>, MaxK)) = 1

\* C14: the retention sweep never deletes a Conversation, or its Messages,
\* while the lease of its journal generation is held, whatever the
\* interleaving of sweep and generation steps.
C14_LeaseRespected ==
    [][\A c \in lease :
          /\ c \in stored => c \in stored'
          /\ c \in transcript => c \in transcript']_vars

\* the sweep has handled an overdue conversation whose lease is held
C14_Witness ==
    \E c \in lease :
        /\ c \in stored /\ c \in transcript
        /\ c \in overdue
        /\ graceExtensions[c] = 1
        /\ done[c] # {}

\* App renders Landing: if (!isLoggedIn) return <Landing ... />
LandingRendered == ~isLoggedIn

\* C21: logging out from whatever page is shown closes the menu and renders
\* the Landing page, and the Landing page stays rendered until the next
\* login: the only step that leaves it is a login (it shows the chat page
\* and is not the callback of a pending timer).
C21_LogoutToLanding ==
    /\ [](~ENABLED (logOutClick /\ ~(LandingRendered' /\ ~isOpen')))
    /\ [][(LandingRendered /\ ~LandingRendered') =>
             (currentPage' = "chat" /\ Len(timers') = Len(timers))]_vars

\* logged out of the AI Talk page while the timer of End Call is pending
C21_Witness ==
    /\ LandingRendered
    /\ ~isOpen
    /\ \E i \in Pending("back") : timers[i].live

\* C22: whenever the profile menu is open, a click on the backdrop and a
\* click on any menu item (Profile, Settings, Help & Support, Log Out) leave
\* isOpen = FALSE, and a step that sets isOpen to TRUE changes nothing else
\* of the front end: it is a click on the profile button.
C22_MenuCloses ==
    /\ [](isOpen =>
            /\ ENABLED backdropClick
            /\ ~ENABLED (backdropClick /\ isOpen')
            /\ \A item \in MenuItems :
                  /\ ENABLED menuItemClick(item)
                  /\ ~ENABLED (menuItemClick(item) /\ isOpen')
            /\ ENABLED logOutClick
            /\ ~ENABLED (logOutClick /\ isOpen'))
    /\ [][(~isOpen /\ isOpen') =>
             UNCHANGED <<appVars, chatVars, today, calVars, talkVars, timers,
                         obsVars>>]_vars

\* the menu is open on the AI Talk page after End Call
C22_Witness ==
    /\ isOpen
    /\ AITalkMounted /\ ~isCallActive

\* C23: leaving the AI Talk page cancels the effect of a pending End Call
\* timer: once another page is shown, no firing of the delayed onBack of
\* the ended session changes currentPage.
C23_LeavingCancelsEndCall ==
    ~AITalkMounted =>
        \A i \in DOMAIN timers :
            ~ENABLED (BackTimerFires(i) /\ currentPage' # currentPage)
====
